---- MODULE Spec2Model ----
(***************************************************************************)
(* Model of src/needler.py: the peptide targeting optimizer.               *)
(*                                                                         *)
(* One run of main(): Needler.load(), Needler.build_model() and the        *)
(* search loop of Needler.optimize() with Needler.save().  The z3 solver   *)
(* is an external engine: a check answers sat with ANY assignment that     *)
(* satisfies the constraints added so far, unsat when there is none, or    *)
(* unknown (time limit hit, or interrupted).                               *)
(*                                                                         *)
(* Modelling decisions:                                                    *)
(*  - the data frame is a set of rows; the row order, protein_order,       *)
(*    peptide_order and the --sortgroups option only change the order in   *)
(*    which variables and constraints are handed to the engine;            *)
(*  - predicted retention times are kept in half seconds (RtScale), so     *)
(*    that astype(int), which truncates toward zero, is modelled;          *)
(*  - the wall clock advances in ticks of half a second (TicksPerSec);     *)
(*  - uuid4() values are distinct: the uuid of a protein is modelled by    *)
(*    its accession, the uuid of a row by the row's (accession, sequence). *)
(***************************************************************************)
EXTENDS Integers, FiniteSets, Sequences, TLC

\* ---------------------------------------------------------------- bounds
MaxRows == 4        \* rows of the input table
MaxStep == 2        \* ticks one engine check may take

\* ------------------------------------------------------ program constants
peps_per_prot_default == 2          \* --pepsperprot default
PEPTIDE_ALLOWED_OFFSET == 500
timeout_default == -1               \* --timeout default (unlimited)
RtScale == 2                        \* model unit: half seconds per second
TicksPerSec == 2                    \* model unit: clock ticks per second
MsPerSec == 1000                    \* z3 api expects milliseconds
TimeoutSlipMs == 1                  \* solver.set("timeout", 1)
NoTimeout == -1                     \* stands for the engine's timeout when never set

\* ------------------------------------------------------------ input sets
Accessions == {"A", "B"}
Times == {-4, -1, 3, 6}             \* half seconds: -2 s, -0.5 s, 1.5 s, 3 s
RtWidths == {1}
TargetsPerCycle == {0, 1, 2}
Timeouts == {timeout_default, 1}

VARIABLES
    table,              \* the input csv: rows (accession, peptide_sequence, rt)
    targets_per_cycle, rt_width, timeout, shuffle, peps_per_prot,
    pc,                 \* position of the process
    df,                 \* self.df after load()
    solver_targets,     \* the constraints Sum(proteins_targeted) > b of the solver
    solver_timeout,     \* the engine's "timeout" parameter, milliseconds
    now,                \* ticks since start_dt
    remainder_seconds,  \* << >> while the local is unbound, <<ticks>> after
    best_ever_result,
    result,             \* answer of the last check: "none", "sat", "unsat", "unknown"
    protein_target,
    used_pep_ids,       \* peptide_in_model
    protein_targets,    \* protein_is_targeted
    fs,                 \* the files "dst" and "temp"
    terminal,           \* how the loop ended
    persisted,          \* history: the solutions save() has moved to dst
    sat_seen,           \* history: protein_target of every sat answer
    sat_checks          \* history: the number of checks that answered sat

vars == <<table, targets_per_cycle, rt_width, timeout, shuffle, peps_per_prot,
          pc, df, solver_targets, solver_timeout, now, remainder_seconds,
          best_ever_result, result, protein_target, used_pep_ids,
          protein_targets, fs, terminal, persisted, sat_seen, sat_checks>>

config == <<table, targets_per_cycle, rt_width, timeout, shuffle, peps_per_prot>>

\* -------------------------------------------------------------- helpers
SetMax(S) == CHOOSE x \in S : \A y \in S : y <= x
SetMin(S) == CHOOSE x \in S : \A y \in S : x <= y
Min2(a, b) == IF b < a THEN b ELSE a
Max2(a, b) == IF b > a THEN b ELSE a

\* astype(int) on a value given in 1/RtScale units: truncation toward zero
AsInt(x) == IF x >= 0 THEN x \div RtScale ELSE -((-x) \div RtScale)

\* ------------------------------------------------------------ the input
\* Sequences are numbered 1..k in the order of their predicted time; the
\* predicted time is a property of the sequence (predict_rt.py merges it on
\* peptide_sequence) and a sequence is listed once per protein.
\* Sequences of equal predicted time are numbered in the order of the proteins
\* listing them, and protein "A" is the one listing sequence 1.
MemberCode(S) == IF S = {"A"} THEN 0 ELSE IF S = {"A", "B"} THEN 1 ELSE 2

NonDecreasing(f, m, k) ==
    \A i \in 1..k : \A j \in 1..k :
        i < j => \/ f[i] < f[j]
                 \/ f[i] = f[j] /\ MemberCode(m[i]) <= MemberCode(m[j])

RowCount(m, k) ==
    LET RECURSIVE Add(_)
        Add(i) == IF i = 0 THEN 0 ELSE Cardinality(m[i]) + Add(i - 1)
    IN Add(k)

MkTable(k, rt, m) ==
    { [accession |-> a, peptide_sequence |-> s, rt |-> rt[s]] :
        <<s, a>> \in { p \in (1..k) \X Accessions : p[2] \in m[p[1]] } }

Tables ==
    UNION { { MkTable(k, f[1], f[2]) :
                f \in { g \in [1..k -> Times] \X [1..k -> (SUBSET Accessions) \ {{}}] :
                          /\ NonDecreasing(g[1], g[2], k)
                          /\ "A" \in g[2][1]
                          /\ RowCount(g[2], k) <= MaxRows } } :
            k \in 1..MaxRows }

Absent == [rows |-> {}, n |-> -1]

\* the state of a run before load()
InitRun ==
    /\ peps_per_prot = peps_per_prot_default
    /\ pc = "load"
    /\ df = {}
    /\ solver_targets = {}
    /\ solver_timeout = NoTimeout
    /\ now = 0
    /\ remainder_seconds = << >>
    /\ best_ever_result = 0
    /\ result = "none"
    /\ protein_target = 0
    /\ used_pep_ids = {}
    /\ protein_targets = {}
    /\ fs = [dst |-> Absent, temp |-> Absent]
    /\ terminal = "none"
    /\ persisted = << >>
    /\ sat_seen = {}
    /\ sat_checks = 0

Init ==
    /\ table \in Tables
    /\ targets_per_cycle \in TargetsPerCycle
    /\ rt_width \in RtWidths
    /\ timeout \in Timeouts
    /\ shuffle \in BOOLEAN
    /\ InitRun

\* ---------------------------------------------------------------- load()
protein_peps(t, a) ==
    Cardinality({ r.peptide_sequence : r \in { x \in t : x.accession = a } })

\* rows of proteins with at least peps_per_prot distinct peptides
\* (faulty variant: nothing is removed)
KeptRowsUnfiltered(t, k) == t
KeptRows(t, k) == { r \in t : protein_peps(t, r.accession) >= k }

\* the peptide_id column: the sequence, or a fresh uuid per ROW when shuffling
PeptideId(r, shuf) ==
    IF shuf THEN <<r.accession, r.peptide_sequence>>
            ELSE <<"", r.peptide_sequence>>

rt_start_of(rt, w) == AsInt(rt - w * RtScale)
rt_stop_of(rt, w) == AsInt(rt + w * RtScale)

LoadRow(r, shuf, w) ==
    [accession |-> r.accession,
     peptide_sequence |-> r.peptide_sequence,
     rt |-> r.rt,
     protein_id |-> r.accession,
     peptide_id |-> PeptideId(r, shuf),
     rt_start |-> rt_start_of(r.rt, w),
     rt_stop |-> rt_stop_of(r.rt, w)]

\* self.df when load() returns
Loaded(t, shuf, w, k) == { LoadRow(r, shuf, w) : r \in KeptRows(t, k) }

Load ==
    /\ pc = "load"
    /\ df' = Loaded(table, shuffle, rt_width, peps_per_prot)
    /\ pc' = "build"
    /\ UNCHANGED <<config, solver_targets, solver_timeout, now, remainder_seconds,
                   best_ever_result, result, protein_target, used_pep_ids,
                   protein_targets, fs, terminal, persisted, sat_seen, sat_checks>>

\* --------------------------------------------------------- build_model()
Proteins(d) == { r.protein_id : r \in d }
PeptideIds(d) == { r.peptide_id : r \in d }

\* set(self.df[self.df.protein_id == prot_id].peptide_id)
protein_peptide_ids(d, prot) ==
    { r.peptide_id : r \in { x \in d : x.protein_id = prot } }

max_targetable(d, w, tpc, k) ==
    LET pep_elution_width == 1 + (2 * w)
        gradient_length_seconds ==
            SetMax({ r.rt_stop : r \in d }) - SetMin({ r.rt_start : r \in d })
        blocks == (gradient_length_seconds \div pep_elution_width) + 1
        max_targetable_blocks == blocks * tpc
        max_target_from_prots == Cardinality(Proteins(d)) * k
    IN Min2(max_targetable_blocks, max_target_from_prots) + PEPTIDE_ALLOWED_OFFSET

\* z3.AtMost(*pep_bools, max_targetable)
AtMostTargetable(d, asg, w, tpc, k) ==
    Cardinality(asg) <= max_targetable(d, w, tpc, k)

\* z3.Or(z3.PbEq(pseudo_bools, 0), z3.PbEq(pseudo_bools, self.peps_per_prot))
\* (faulty variant: the count is only bounded by k)
PbEqZeroOrKLoose(n, k) == n <= k
PbEqZeroOrK(n, k) == n = 0 \/ n = k

ProteinBalance(d, asg, k) ==
    \A prot \in Proteins(d) :
        PbEqZeroOrK(Cardinality(protein_peptide_ids(d, prot) \cap asg), k)

\* z3.Sum(self.proteins_targeted), each term z3.If(z3.PbEq(pseudo_bools, k), 1, 0)
SumProteinsTargeted(d, asg, k) ==
    Cardinality({ prot \in Proteins(d) :
                    Cardinality(protein_peptide_ids(d, prot) \cap asg) = k })

\* protein_target = 0; self.solver.add(z3.Sum(self.proteins_targeted) > protein_target)
\* (faulty variant: no initial target, any count exceeds -1)
InitialTargetNone == 0 - 1
InitialTarget == 0

\* list(range(rt_minimum, rt_maximum + 1))
\* (faulty variant: one time step per elution width)
time_steps_strided(d, w) ==
    LET lo == Max2(SetMin({ r.rt_start : r \in d }), 0)
        hi == SetMax({ r.rt_stop : r \in d })
    IN { i \in lo..hi : (i - lo) % (1 + 2 * w) = 0 }
time_steps(d, w) ==
    LET rt_minimum == Max2(SetMin({ r.rt_start : r \in d }), 0)
        rt_maximum == SetMax({ r.rt_stop : r \in d })
    IN rt_minimum..rt_maximum

\* set(self.df[(rt_start <= i) & (rt_stop >= i)].peptide_id)
time_slot_peptides(d, i) ==
    { r.peptide_id : r \in { x \in d : x.rt_start <= i /\ x.rt_stop >= i } }

\* z3.AtMost(*time_slot_peptides, self.targets_per_cycle), for every time step
GradientConstraints(d, asg, w, tpc) ==
    \A i \in time_steps(d, w) :
        time_slot_peptides(d, i) # {} =>
            Cardinality(time_slot_peptides(d, i) \cap asg) <= tpc

\* The assignments of the peptide booleans that satisfy every constraint the
\* solver holds: those of build_model() and the targets added since.
Models(d, targets, w, tpc, k) ==
    { asg \in SUBSET PeptideIds(d) :
        /\ AtMostTargetable(d, asg, w, tpc, k)
        /\ ProteinBalance(d, asg, k)
        /\ \A b \in targets : SumProteinsTargeted(d, asg, k) > b
        /\ GradientConstraints(d, asg, w, tpc) }

\* An empty frame has no rt_start.min(): range() raises and the run ends.
BuildModel ==
    /\ pc = "build"
    /\ IF df = {}
       THEN /\ pc' = "error"
            /\ terminal' = "BuildError"
            /\ UNCHANGED <<solver_targets, solver_timeout>>
       ELSE /\ pc' = "optimize"
            /\ solver_timeout' =
                 IF timeout > 0 THEN timeout * MsPerSec ELSE solver_timeout
            /\ solver_targets' = {InitialTarget}
            /\ UNCHANGED terminal
    /\ UNCHANGED <<config, df, now, remainder_seconds, best_ever_result, result,
                   protein_target, used_pep_ids, protein_targets, fs, persisted,
                   sat_seen, sat_checks>>

\* ------------------------------------------------------------ optimize()
\* start_dt = now; target_dt = start_dt + timeout; best_ever_result = 0
OptimizeBegin ==
    /\ pc = "optimize"
    /\ now' = 0
    /\ best_ever_result' = 0
    /\ pc' = "check"
    /\ UNCHANGED <<config, df, solver_targets, solver_timeout, remainder_seconds,
                   result, protein_target, used_pep_ids, protein_targets, fs,
                   terminal, persisted, sat_seen, sat_checks>>

target_dt == timeout * TicksPerSec

\* The ticks a check may take under the engine's timeout (0 and the default
\* mean no limit).  The clock is only read when timeout > 0.
LimitTicks(ms) ==
    IF ms = NoTimeout \/ ms = 0
    THEN MaxStep
    ELSE Min2(MaxStep, (ms * TicksPerSec + MsPerSec - 1) \div MsPerSec)

Elapsed == IF timeout > 0 THEN 0..LimitTicks(solver_timeout) ELSE {0}

\* int(remainder_seconds) * 1000, or 1 once the deadline has passed
NextTimeout(rem) ==
    IF rem < 0 THEN TimeoutSlipMs ELSE (rem \div TicksPerSec) * MsPerSec

\* "reset the timeout budget", after the check that took e ticks
ResetBudget(e) ==
    /\ now' = now + e
    /\ IF timeout > 0
       THEN /\ remainder_seconds' = <<target_dt - (now + e)>>
            /\ solver_timeout' = NextTimeout(target_dt - (now + e))
       ELSE UNCHANGED <<remainder_seconds, solver_timeout>>

\* best_ever_result = protein_target
\* (faulty variant: the best result is not updated)
NewBestStale(pt, best) == best
NewBest(pt, best) == pt

\* acc_counts[acc_counts == self.peps_per_prot].index
ProteinTargets(d, used, k) ==
    { prot \in Proteins(d) :
        Cardinality({ r.peptide_id :
                        r \in { x \in d : x.protein_id = prot /\ x.peptide_id \in used } })
          = k }

\* if protein_target > best_ever_result: ... solver.add(Sum > protein_target)
\* (faulty variants: improvement taken as >=; the new target skipping a value)
OnSatNonStrict(pt, best) == [improved |-> pt >= best, target |-> pt - 1]
OnSatSkipping(pt, best) == [improved |-> pt > best, target |-> pt + 1]
OnSat(pt, best) == [improved |-> pt > best, target |-> pt]

CheckSat ==
    /\ pc = "check"
    /\ \E e \in Elapsed :
       \E model \in Models(df, solver_targets, rt_width, targets_per_cycle, peps_per_prot) :
         LET pts == ProteinTargets(df, model, peps_per_prot)
             pt == Cardinality(pts)
         IN /\ ResetBudget(e)
            /\ result' = "sat"
            /\ used_pep_ids' = model
            /\ protein_targets' = pts
            /\ protein_target' = pt
            /\ sat_seen' = sat_seen \cup {pt}
            /\ sat_checks' = sat_checks + 1
            /\ IF OnSat(pt, best_ever_result).improved
               THEN /\ best_ever_result' = NewBest(pt, best_ever_result)
                    /\ pc' = "save"
                    /\ UNCHANGED terminal
               ELSE /\ pc' = "done"
                    /\ terminal' = "Converged"
                    /\ UNCHANGED best_ever_result
    /\ UNCHANGED <<config, df, solver_targets, fs, persisted>>

CheckUnsat ==
    /\ pc = "check"
    /\ Models(df, solver_targets, rt_width, targets_per_cycle, peps_per_prot) = {}
    /\ \E e \in Elapsed : ResetBudget(e)
    /\ result' = "unsat"
    /\ pc' = "done"
    /\ terminal' = "Infeasible"
    /\ UNCHANGED <<config, df, solver_targets, best_ever_result, protein_target,
                   used_pep_ids, protein_targets, fs, persisted, sat_seen, sat_checks>>

\* elif result == z3.unknown: if remainder_seconds < 0: ... else: ...
\* remainder_seconds is only bound when timeout > 0
CheckUnknown ==
    /\ pc = "check"
    /\ \E e \in Elapsed : ResetBudget(e)
    /\ result' = "unknown"
    /\ IF remainder_seconds' = << >>
       THEN pc' = "error" /\ terminal' = "UnboundLocalError"
       ELSE IF remainder_seconds'[1] < 0
            THEN pc' = "done" /\ terminal' = "TimedOut"
            ELSE pc' = "done" /\ terminal' = "Halted"
    /\ UNCHANGED <<config, df, solver_targets, best_ever_result, protein_target,
                   used_pep_ids, protein_targets, fs, persisted, sat_seen, sat_checks>>

\* ------------------------------------------------------------------ save()
\* (faulty variant: to_csv writes the destination itself)
TempNameIsDst == "dst"
\* temp_name = self.dst + ".temp"
TempName == "temp"

\* bidx = peptide_in_model & protein_is_targeted
SelectedRows(d, used, pts) ==
    { r \in d : r.peptide_id \in used /\ r.protein_id \in pts }

\* self.df[bidx][columns]: the projection written to the csv
ArtifactRows(d, used, pts) ==
    { [accession |-> r.accession, peptide_sequence |-> r.peptide_sequence,
       rt |-> r.rt, rt_start |-> r.rt_start, rt_stop |-> r.rt_stop] :
        r \in SelectedRows(d, used, pts) }

IsComplete(f) == f.n = Cardinality(f.rows)

\* to_csv opens (and truncates) the temporary file
SaveOpen ==
    /\ pc = "save"
    /\ fs' = [fs EXCEPT ![TempName] =
                [rows |-> ArtifactRows(df, used_pep_ids, protein_targets), n |-> 0]]
    /\ pc' = "write"
    /\ UNCHANGED <<config, df, solver_targets, solver_timeout, now, remainder_seconds,
                   best_ever_result, result, protein_target, used_pep_ids,
                   protein_targets, terminal, persisted, sat_seen, sat_checks>>

\* to_csv writes one more row
SaveWrite ==
    /\ pc = "write"
    /\ ~IsComplete(fs[TempName])
    /\ fs' = [fs EXCEPT ![TempName].n = @ + 1]
    /\ UNCHANGED <<config, pc, df, solver_targets, solver_timeout, now,
                   remainder_seconds, best_ever_result, result, protein_target,
                   used_pep_ids, protein_targets, terminal, persisted, sat_seen, sat_checks>>

\* shutil.move(temp_name, self.dst): a rename within one directory
Move(f, src, dst) ==
    IF src = dst THEN f ELSE [f EXCEPT ![dst] = f[src], ![src] = Absent]

\* the move, then the rest of the iteration: the harder target and the
\* "targets all provided proteins" test
SaveMove ==
    /\ pc = "write"
    /\ IsComplete(fs[TempName])
    /\ fs' = Move(fs, TempName, "dst")
    /\ persisted' = Append(persisted,
                       [target |-> protein_target,
                        used |-> used_pep_ids,
                        sel |-> SelectedRows(df, used_pep_ids, protein_targets),
                        rows |-> ArtifactRows(df, used_pep_ids, protein_targets)])
    /\ solver_targets' =
         solver_targets \cup {OnSat(protein_target, best_ever_result).target}
    /\ IF protein_target = Cardinality(Proteins(df))
       THEN pc' = "done" /\ terminal' = "Converged"
       ELSE pc' = "check" /\ UNCHANGED terminal
    /\ UNCHANGED <<config, df, solver_timeout, now, remainder_seconds,
                   best_ever_result, result, protein_target, used_pep_ids,
                   protein_targets, sat_seen, sat_checks>>

\* the process is killed from outside
Kill ==
    /\ pc \in {"load", "build", "optimize", "check", "save", "write"}
    /\ pc' = "killed"
    /\ UNCHANGED <<config, df, solver_targets, solver_timeout, now, remainder_seconds,
                   best_ever_result, result, protein_target, used_pep_ids,
                   protein_targets, fs, terminal, persisted, sat_seen, sat_checks>>

Next ==
    \/ Load
    \/ BuildModel
    \/ OptimizeBegin
    \/ CheckSat
    \/ CheckUnsat
    \/ CheckUnknown
    \/ SaveOpen
    \/ SaveWrite
    \/ SaveMove
    \/ Kill

Spec == Init /\ [][Next]_vars

\* ------------------------------------------------- the scenario of the spec
\* 3 proteins, K = 2, targets_per_cycle = 1, half-width 5 s: protein A has the
\* windows [0,10] and [20,30], B [5,15] and [25,35], C [0,10] twice.
ScenarioTable ==
    { [accession |-> "A", peptide_sequence |-> 1, rt |-> 5 * RtScale],
      [accession |-> "A", peptide_sequence |-> 2, rt |-> 25 * RtScale],
      [accession |-> "B", peptide_sequence |-> 3, rt |-> 10 * RtScale],
      [accession |-> "B", peptide_sequence |-> 4, rt |-> 30 * RtScale],
      [accession |-> "C", peptide_sequence |-> 5, rt |-> 5 * RtScale],
      [accession |-> "C", peptide_sequence |-> 6, rt |-> 5 * RtScale] }

InitScenario ==
    /\ table = ScenarioTable
    /\ targets_per_cycle = 1
    /\ rt_width = 5
    /\ timeout \in Timeouts
    /\ shuffle \in BOOLEAN
    /\ InitRun

SpecScenario == InitScenario /\ [][Next]_vars

\* ------------------------------------------------------------------ claims
LastPersisted == persisted[Len(persisted)]

CompleteFile(rows) == [rows |-> rows, n |-> Cardinality(rows)]

\* the peptides of protein prot that the solution `used` marks selected
SelectedCount(d, used, prot) ==
    Cardinality({ r.peptide_id :
                    r \in { x \in d : x.protein_id = prot /\ x.peptide_id \in used } })

\* C1: in every persisted solution every protein of the model has 0 or exactly
\* peps_per_prot of its peptides selected, and so many distinct peptide
\* sequences in the artifact.
C1_AllOrNothing ==
    \A i \in 1..Len(persisted) : \A prot \in Proteins(df) :
        /\ SelectedCount(df, persisted[i].used, prot) \in {0, peps_per_prot}
        /\ Cardinality({ r.peptide_sequence :
                           r \in { x \in persisted[i].rows : x.accession = prot } })
             \in {0, peps_per_prot}

C1_Witness ==
    /\ Len(persisted) >= 1
    /\ \E prot \in Proteins(df) : SelectedCount(df, persisted[1].used, prot) = 0
    /\ \E prot \in Proteins(df) :
         SelectedCount(df, persisted[1].used, prot) = peps_per_prot

\* every integer second some peptide window of the frame covers
AllSlots(d) == SetMin({ r.rt_start : r \in d })..SetMax({ r.rt_stop : r \in d })

\* the selected peptides whose window covers second t
CoveringSelected(sel, t) ==
    { r.peptide_sequence : r \in { x \in sel : x.rt_start <= t /\ t <= x.rt_stop } }

\* C2: in every persisted solution, for every integer time slot t, at most
\* targets_per_cycle selected peptides have a window covering t.
C2_Capacity ==
    \A i \in 1..Len(persisted) : \A t \in AllSlots(df) :
        Cardinality(CoveringSelected(persisted[i].sel, t)) <= targets_per_cycle

\* C3: the protein_target values of the successively persisted artifacts are
\* strictly increasing.
C3_StrictlyIncreasing ==
    \A i \in 1..Len(persisted) : \A j \in 1..Len(persisted) :
        i < j => persisted[i].target < persisted[j].target

C3_Witness == Len(persisted) >= 2

\* C4: at every point of a run, a kill included, the destination is absent or
\* holds one of the persisted solutions in full.
C4_Atomic ==
    \/ fs.dst = Absent
    \/ \E i \in 1..Len(persisted) : fs.dst = CompleteFile(persisted[i].rows)

C4_Witness ==
    /\ pc = "killed"
    /\ fs.temp # Absent
    /\ fs.temp.n > 0
    /\ ~IsComplete(fs.temp)
    /\ fs.dst # Absent

\* The optimum by exhaustive enumeration: the most proteins any selection of
\* the model's peptides targets in full, when every protein has 0 or k of its
\* peptides selected and no second from 0 on is covered by more than tpc
\* selected peptides (a window clamped at 0 covers no second below 0).
RefFeasible(d, sel, tpc, k) ==
    /\ \A prot \in Proteins(d) : SelectedCount(d, sel, prot) \in {0, k}
    /\ \A t \in 0..SetMax({ r.rt_stop : r \in d }) :
         Cardinality({ r.peptide_id :
                         r \in { x \in d : /\ x.peptide_id \in sel
                                           /\ x.rt_start <= t
                                           /\ t <= x.rt_stop } }) <= tpc

RefTargeted(d, sel, k) ==
    Cardinality({ prot \in Proteins(d) : SelectedCount(d, sel, prot) = k })

TrueOptimum(d, tpc, k) ==
    SetMax({ RefTargeted(d, sel, k) :
               sel \in { x \in SUBSET PeptideIds(d) : RefFeasible(d, x, tpc, k) } })

PersistedTarget == IF Len(persisted) = 0 THEN 0 ELSE LastPersisted.target

EngineDecided == pc = "done" /\ terminal \in {"Infeasible", "Converged"}

\* C6 as stated: the scenario ends with protein_target = 2.
C6_Original ==
    (table = ScenarioTable /\ EngineDecided) =>
        /\ PersistedTarget = 2
        /\ \A i \in 1..Len(persisted) :
             Cardinality(CoveringSelected(persisted[i].sel, 7)) <= targets_per_cycle

\* C6 amended: the scenario ends with protein_target = 1 (A and B exclude each
\* other on [5,10] and [25,30], C's two peptides exclude each other), and the
\* capacity holds at slot 7.
C6_Scenario ==
    (table = ScenarioTable /\ EngineDecided) =>
        /\ PersistedTarget = 1
        /\ terminal = "Infeasible"
        /\ \A i \in 1..Len(persisted) :
             Cardinality(CoveringSelected(persisted[i].sel, 7)) <= targets_per_cycle

C6_Witness ==
    /\ table = ScenarioTable
    /\ EngineDecided
    /\ Cardinality(Proteins(df)) = 3
    /\ Cardinality(CoveringSelected(LastPersisted.sel, 7)) = 1

\* some selection that respects balance and capacity targets a protein in full
SomeTargetable(d, tpc, k) ==
    \E sel \in SUBSET PeptideIds(d) :
        RefFeasible(d, sel, tpc, k) /\ RefTargeted(d, sel, k) >= 1

\* no sat answer, no save(), nothing written; a check that decides is unsat
\* and ends the loop in Infeasible
QuietRun ==
    /\ persisted = << >>
    /\ fs.dst = Absent
    /\ fs.temp = Absent
    /\ pc \notin {"save", "write"}
    /\ result # "sat"
    /\ result = "unsat" => (pc = "done" /\ terminal = "Infeasible")
    /\ (pc = "done" /\ result # "unknown") => result = "unsat"

DroppedProteins(t, k) ==
    { a \in { r.accession : r \in t } : protein_peps(t, a) < k }

DroppedSequences(t, k) ==
    { r.peptide_sequence : r \in { x \in t : x.accession \in DroppedProteins(t, k) } }

\* C8 as stated: no peptide sequence of a dropped protein appears in any
\* persisted artifact.
C8_Original ==
    \A i \in 1..Len(persisted) : \A r \in persisted[i].rows :
        r.peptide_sequence \notin DroppedSequences(table, peps_per_prot)

\* C8 amended: a dropped protein has no row in the model, and no row of any
\* persisted artifact carries its accession.
C8_Dropped ==
    /\ pc # "load" =>
         \A r \in df : r.accession \notin DroppedProteins(table, peps_per_prot)
    /\ \A i \in 1..Len(persisted) : \A r \in persisted[i].rows :
         r.accession \notin DroppedProteins(table, peps_per_prot)

C8_Witness ==
    /\ DroppedProteins(table, peps_per_prot) # {}
    /\ Len(persisted) >= 1
    /\ \E r \in LastPersisted.rows :
         r.peptide_sequence \in DroppedSequences(table, peps_per_prot)

\* C9: before every check and in every terminal state the destination holds
\* exactly the persisted solution whose protein_target is best_ever_result, the
\* largest protein_target of the sat answers seen; nothing is written while
\* best_ever_result is 0.
C9_BestIsArtifact ==
    /\ best_ever_result = 0 => (fs.dst = Absent /\ fs.temp = Absent)
    /\ (pc = "check" \/ (pc = "done" /\ terminal \in {"Converged", "Infeasible",
                                                     "TimedOut", "Halted"})) =>
         IF best_ever_result = 0
         THEN persisted = << >> /\ sat_seen = {}
         ELSE /\ Len(persisted) >= 1
              /\ LastPersisted.target = best_ever_result
              /\ fs.dst = CompleteFile(LastPersisted.rows)
              /\ best_ever_result = SetMax(sat_seen)

C9_Witness ==
    /\ pc = "check"
    /\ best_ever_result = 1
    /\ fs.dst # Absent

\* C10: whenever a check answers unknown the loop stops in TimedOut or Halted,
\* without an exception and without touching the artifact.
C10_UnknownStops ==
    result = "unknown" =>
        /\ pc = "done"
        /\ terminal \in {"TimedOut", "Halted"}
        /\ fs.temp = Absent
        /\ fs.dst = (IF Len(persisted) = 0 THEN Absent
                     ELSE CompleteFile(LastPersisted.rows))

\* the rows an assignment of the peptide booleans selects
RowsOf(d, asg) ==
    { <<r.accession, r.peptide_sequence>> : r \in { x \in d : x.peptide_id \in asg } }

\* the selections of rows the model built from frame d admits
FeasibleSelections(d, w, tpc, k) ==
    { RowsOf(d, asg) : asg \in Models(d, {InitialTarget}, w, tpc, k) }

\* C11: with and without shuffle the model has exactly one boolean per distinct
\* peptide sequence of the frame, every persisted solution selects a sequence
\* for all its rows at once, and the selections the model admits are those it
\* admits with the shuffle option inverted.
C11_OneVariablePerPeptide ==
    (pc # "load" /\ df # {}) =>
        /\ Cardinality(PeptideIds(df)) =
             Cardinality({ r.peptide_sequence : r \in df })
        /\ \A i \in 1..Len(persisted) : \A r1 \in df : \A r2 \in df :
             r1.peptide_sequence = r2.peptide_sequence =>
                 (r1.peptide_id \in persisted[i].used
                    <=> r2.peptide_id \in persisted[i].used)
        /\ pc = "optimize" =>
             FeasibleSelections(df, rt_width, targets_per_cycle, peps_per_prot) =
             FeasibleSelections(Loaded(table, ~shuffle, rt_width, peps_per_prot),
                                rt_width, targets_per_cycle, peps_per_prot)

\* C12: when timeout > 0, the timeout pushed to the engine after a check is a
\* strictly positive number of milliseconds: the whole remaining budget while
\* the deadline has not passed, 1 ms once it has; 0 is never pushed.
C12_PositiveTimeout ==
    (timeout > 0 /\ remainder_seconds # << >>) =>
        /\ solver_timeout > 0
        /\ IF remainder_seconds[1] < 0
           THEN solver_timeout = TimeoutSlipMs
           ELSE solver_timeout = (remainder_seconds[1] * MsPerSec) \div TicksPerSec

\* the bounds Sum(proteins_targeted) > b the solver held before the i-th save
EarlierBounds(i) == {InitialTarget} \cup { persisted[j].target : j \in 1..(i - 1) }

\* the loop of optimize() has been left (not by a kill from outside)
LoopLeft == pc \notin {"load", "build", "optimize", "check", "save", "write", "killed"}

\* the bound on the sat answers and the strictly growing ratchet
BoundedRatchet ==
    /\ sat_checks <= Cardinality(Proteins(df)) + 1
    /\ \A i \in 1..Len(persisted) : \A b \in EarlierBounds(i) :
         persisted[i].target > b
    /\ solver_targets \subseteq EarlierBounds(Len(persisted) + 1)

\* C13: whatever the engine answers, every bound added after a sat answer is
\* strictly greater than every earlier bound, at most num_proteins + 1 checks
\* answer sat, and the loop is left in one of the terminal states Converged,
\* Infeasible, TimedOut or Halted.
C13_Terminates ==
    (pc \notin {"load", "build"} /\ df # {}) =>
        /\ BoundedRatchet
        /\ LoopLeft =>
             /\ pc = "done"
             /\ terminal \in {"Converged", "Infeasible", "TimedOut", "Halted"}

\* C14: after load() no row of the frame has a negative rt_start, and no row
\* of a persisted artifact carries one.
C14_StartClamped ==
    /\ pc # "load" => \A r \in df : r.rt_start >= 0
    /\ \A i \in 1..Len(persisted) : \A r \in persisted[i].rows : r.rt_start >= 0

====
